---- MODULE Spec2Model ----
(***************************************************************************)
(* Model of the reminder scheduling and delivery subsystem of MedAlertAI:  *)
(* services/notification_scheduler.py (MedicationScheduler), the parts of  *)
(* app.py, utils/storage.py, utils/user_manager.py and                     *)
(* services/notification_sender.py it calls.                               *)
(*                                                                         *)
(* Time is counted in seconds since midnight of day 0.  Each handler reads *)
(* the clock once: the datetime.now() calls inside one handler are         *)
(* microseconds apart and are modelled as the same instant.                *)
(***************************************************************************)
EXTENDS Integers, Sequences, FiniteSets, TLC

(***************************************************************************)
(* Bounds of the model.                                                    *)
(***************************************************************************)
MaxCalls == 3
MaxDispatch == 1

(***************************************************************************)
(* Program constants.                                                      *)
(***************************************************************************)
Day == 86400
PollSleep == 60
AddTwelve == 12
MaxHour == 23
MaxMinute == 59

(***************************************************************************)
(* Python string primitives used by the scheduler, on TLA+ strings.        *)
(***************************************************************************)
CharAt(s, i) == SubSeq(s, i, i)

Digits == <<"0", "1", "2", "3", "4", "5", "6", "7", "8", "9">>

IsDigit(c) == \E d \in 1..10 : Digits[d] = c

DigitVal(c) == (CHOOSE d \in 1..10 : Digits[d] = c) - 1

IsSpace(c) == c \in {" ", "\t", "\n"}

RECURSIVE LStrip(_)
LStrip(s) ==
    IF Len(s) > 0 /\ IsSpace(CharAt(s, 1)) THEN LStrip(Tail(s)) ELSE s

RECURSIVE RStrip(_)
RStrip(s) ==
    IF Len(s) > 0 /\ IsSpace(CharAt(s, Len(s)))
    THEN RStrip(SubSeq(s, 1, Len(s) - 1))
    ELSE s

\* str.strip()
Strip(s) == RStrip(LStrip(s))

UpperChar(c) ==
    CASE c = "a" -> "A" [] c = "p" -> "P" [] c = "m" -> "M"
      [] c = "x" -> "X" [] c = "l" -> "L" [] c = "b" -> "B"
      [] c = "o" -> "O" [] c = "n" -> "N" [] c = "c" -> "C"
      [] c = "y" -> "Y" [] c = "z" -> "Z" [] c = "i" -> "I"
      [] c = "k" -> "K" [] c = "e" -> "E"
      [] OTHER -> c

RECURSIVE Upper(_)
\* str.upper(), on the alphabet of the modelled inputs
Upper(s) == IF Len(s) = 0 THEN "" ELSE UpperChar(CharAt(s, 1)) \o Upper(Tail(s))

\* str.startswith(pre)
StartsWith(s, pre) == Len(s) >= Len(pre) /\ SubSeq(s, 1, Len(pre)) = pre

\* sub in s
Contains(s, sub) ==
    \E i \in 1..(Len(s) - Len(sub) + 1) : SubSeq(s, i, i + Len(sub) - 1) = sub

RECURSIVE ReplaceN(_, _, _, _)
\* str.replace(old, new, count): the leftmost count occurrences (old non-empty)
ReplaceN(s, old, new, count) ==
    IF count = 0 \/ Len(s) < Len(old) THEN s
    ELSE IF StartsWith(s, old)
         THEN new \o ReplaceN(SubSeq(s, Len(old) + 1, Len(s)), old, new, count - 1)
         ELSE CharAt(s, 1) \o ReplaceN(Tail(s), old, new, count)

\* str.replace(old, new): every occurrence
Replace(s, old, new) == ReplaceN(s, old, new, Len(s))

RECURSIVE Split(_, _)
\* str.split(sep) for a one-character separator
Split(s, sep) ==
    IF ~Contains(s, sep) THEN <<s>>
    ELSE LET i == CHOOSE k \in 1..Len(s) :
                    /\ CharAt(s, k) = sep
                    /\ \A j \in 1..(k - 1) : CharAt(s, j) # sep
         IN  <<SubSeq(s, 1, i - 1)>> \o Split(SubSeq(s, i + 1, Len(s)), sep)

RECURSIVE DigitsVal(_)
DigitsVal(s) ==
    IF Len(s) = 0 THEN 0
    ELSE 10 * DigitsVal(SubSeq(s, 1, Len(s) - 1)) + DigitVal(CharAt(s, Len(s)))

AllDigits(s) == Len(s) > 0 /\ \A i \in 1..Len(s) : IsDigit(CharAt(s, i))

\* int(s): surrounding whitespace and one sign are accepted, anything else
\* raises ValueError (ok = FALSE)
PyInt(s) ==
    LET t == Strip(s)
        signed == Len(t) > 0 /\ CharAt(t, 1) \in {"+", "-"}
        body == IF signed THEN Tail(t) ELSE t
    IN  IF AllDigits(body)
        THEN [ok |-> TRUE,
              val |-> IF signed /\ CharAt(t, 1) = "-" THEN 0 - DigitsVal(body)
                      ELSE DigitsVal(body)]
        ELSE [ok |-> FALSE, val |-> 0]

RECURSIVE IntStr(_)
\* str(n) for n >= 0
IntStr(n) == IF n < 10 THEN Digits[n + 1] ELSE IntStr(n \div 10) \o Digits[(n % 10) + 1]

\* f"{n:02d}" for n >= 0
Fmt02d(n) == IF n < 10 THEN "0" \o IntStr(n) ELSE IntStr(n)

\* str(n)
PyStr(n) == IF n < 0 THEN "-" \o IntStr(0 - n) ELSE IntStr(n)

(***************************************************************************)
(* MedicationScheduler._parse_time                                         *)
(***************************************************************************)
FallbackTime == "09:00"

\* lines 311-324: the PM / AM adjustment.  ok = FALSE stands for the
\* ValueError raised by the tuple unpacking or by int()
AdjustMeridiem_plain(time_str, has_pm, has_am) == [ok |-> TRUE, str |-> time_str]

AdjustMeridiem(time_str, has_pm, has_am) ==
    IF has_pm /\ ~StartsWith(time_str, "12")
    THEN IF Contains(time_str, ":")
         THEN LET parts == Split(time_str, ":")
              IN  IF Len(parts) # 2 \/ ~PyInt(parts[1]).ok
                  THEN [ok |-> FALSE, str |-> time_str]
                  ELSE [ok |-> TRUE,
                        str |-> PyStr(PyInt(parts[1]).val + AddTwelve) \o ":" \o parts[2]]
         ELSE IF ~PyInt(time_str).ok
              THEN [ok |-> FALSE, str |-> time_str]
              ELSE [ok |-> TRUE, str |-> PyStr(PyInt(time_str).val + AddTwelve) \o ":00"]
    ELSE IF has_am /\ StartsWith(time_str, "12")
         THEN IF Contains(time_str, ":")
              THEN [ok |-> TRUE, str |-> ReplaceN(time_str, "12", "00", 1)]
              ELSE [ok |-> TRUE, str |-> "00:00"]
         ELSE [ok |-> TRUE, str |-> time_str]

ValidateTime_unchecked(time_str) ==
    LET withColon == IF Contains(time_str, ":") THEN time_str ELSE time_str \o ":00"
        parts == Split(withColon, ":")
    IN  IF Len(parts) # 2 THEN FallbackTime
        ELSE LET hour == PyInt(parts[1])
                 minute == PyInt(parts[2])
             IN  IF ~hour.ok \/ ~minute.ok THEN FallbackTime
                 ELSE Fmt02d(hour.val) \o ":" \o Fmt02d(minute.val)

\* lines 326-338: append ":00", split, convert, validate and format
ValidateTime(time_str) ==
    LET withColon == IF Contains(time_str, ":") THEN time_str ELSE time_str \o ":00"
        parts == Split(withColon, ":")
    IN  IF Len(parts) # 2 THEN FallbackTime
        ELSE LET hour == PyInt(parts[1])
                 minute == PyInt(parts[2])
             IN  IF ~hour.ok \/ ~minute.ok THEN FallbackTime
                 ELSE IF hour.val < 0 \/ hour.val > MaxHour
                         \/ minute.val < 0 \/ minute.val > MaxMinute
                      THEN FallbackTime
                      ELSE Fmt02d(hour.val) \o ":" \o Fmt02d(minute.val)

_parse_time(raw) ==
    LET upper == Upper(Strip(raw))
        has_pm == Contains(upper, "PM")
        has_am == Contains(upper, "AM")
        time_str == Strip(Replace(Replace(upper, "AM", ""), "PM", ""))
        adjusted == AdjustMeridiem(time_str, has_pm, has_am)
    IN  IF ~adjusted.ok THEN FallbackTime ELSE ValidateTime(adjusted.str)

\* datetime.strptime(reminder_time, "%H:%M").time() and schedule's at("HH:MM"),
\* as seconds since midnight
TimeOfDay(hhmm) ==
    LET parts == Split(hhmm, ":")
    IN  (PyInt(parts[1]).val * 60 + PyInt(parts[2]).val) * 60

\* datetime.combine(today, t) for the day that holds the instant now
TodayAt(now_, tod) == (now_ \div Day) * Day + tod

(***************************************************************************)
(* Inputs: the prescriptions the analyzer can return, the patient names a  *)
(* caller can pass, the instants the clock can show.                       *)
(***************************************************************************)
Prescriptions ==
    { [Patient |-> "Al",
       Medicines |-> << [Medicine |-> "Zinc", Timings |-> <<"8:00 am">>] >>],
      [Patient |-> "Al Bo",
       Medicines |-> << [Medicine |-> "Zinc", Timings |-> <<"8AM">>] >>],
      [Patient |-> "Cy",
       Medicines |-> << [Medicine |-> "Alka", Timings |-> <<"7:59AM">>] >>] }

\* prescriptions whose timings are a range, a frequency code, or no time of
\* day at all
TimingPrescriptions ==
    { [Patient |-> "Al", Medicines |-> << [Medicine |-> "Zinc", Timings |-> <<t>>] >>] :
      t \in {"1:00AM-5:00PM", "1PM-5PM", "8:30AM-9:00AM", "1-0-1", "1-1-1",
             "", "after lunch", "25:30", "11:45PM"} }

PatientNames == {"Al", "Al Bo", "Cy"}

\* 07:59:00 and 08:00:00
ClockTimes == {28740, 28800}

\* those times of day 0 and of day 1
Instants == ClockTimes \cup {Day + t : t \in ClockTimes}

FirstInstant == CHOOSE t \in Instants : \A u \in Instants : t <= u

EmptyMap == [p \in {} |-> <<>>]

VARIABLES
    now,            \* datetime.now(), in seconds
    is_running,     \* MedicationScheduler.is_running
    async_loop,     \* MedicationScheduler.async_loop: 0 is None, else a loop id
    loops,          \* the event loops created so far: loops[id] is its state
    athreads,       \* the threads started by _start_async_loop
    sthreads,       \* the threads started on _run_scheduler
    jobs,           \* schedule.jobs, the job registry of the schedule library
    cache,          \* MedicationScheduler.scheduled_reminders_cache
    snapshot,       \* data/scheduled_reminders/active_reminders.json
    disk,           \* data/prescriptions/prescription_<timestamp>.json
    pending,        \* coroutines submitted with run_coroutine_threadsafe
    prefs,          \* data/users/preferences/<name>_preferences.json
    history,        \* data/reminder_history/<name>_history.json
    sent,           \* what the last dispatch attempted and delivered
    fs,             \* the file system: "ok", or "flaky" when writes can fail
    op,             \* the operation that made the last step
    n_calls,        \* number of calls of the scheduler's operations so far
    ingested,       \* history: how often each prescription was ingested since
                    \* its patient's reminders were last removed
    removed,        \* history: patients removed and not ingested since
    parsed,         \* a call of _parse_time on its own: its argument and what
                    \* it returned ("" while it has not returned)
    returned,       \* the last call of a query operation and what it returned
    written         \* history: for each patient, the last value given for each
                    \* preference key by the calls of update_user_preferences

vars == <<now, is_running, async_loop, loops, athreads, sthreads, jobs, cache,
          snapshot, disk, pending, prefs, history, sent, fs, op, n_calls,
          ingested, removed, parsed, returned, written>>

schedVars == <<is_running, async_loop, loops, athreads, sthreads, jobs, cache,
               snapshot, disk, pending, n_calls, ingested, removed>>

dispatchVars == <<prefs, history, sent>>

\* the outcomes a file write can have
WriteOutcomes == IF fs = "ok" THEN {TRUE} ELSE BOOLEAN

\* op names the operation of the last step, the patient it was called for,
\* the jobs run_pending ran and dropped, and what start_scheduler logged
Op(name, who) == [name |-> name, who |-> who, fired |-> 0, dropped |-> 0, log |-> ""]

(***************************************************************************)
(* schedule_prescription_reminders: one MedicineReminder per timing of     *)
(* each medicine, in order.                                                *)
(***************************************************************************)
RECURSIVE TimingReminders(_, _, _)
TimingReminders(patient, medicine, timings) ==
    IF timings = <<>> THEN <<>>
    ELSE <<[patient_name |-> patient, medicine_name |-> medicine,
            timing |-> Head(timings)]>>
         \o TimingReminders(patient, medicine, Tail(timings))

RECURSIVE MedicineReminders(_, _)
MedicineReminders(patient, medicines) ==
    IF medicines = <<>> THEN <<>>
    ELSE TimingReminders(patient, Head(medicines).Medicine, Head(medicines).Timings)
         \o MedicineReminders(patient, Tail(medicines))

Reminders(rx) == MedicineReminders(rx.Patient, rx.Medicines)

\* every reminder the prescriptions give rise to
FiredReminders ==
    UNION {{Reminders(rx)[i] : i \in 1..Len(Reminders(rx))} : rx \in Prescriptions}

\* every reminder a prescription of the model gives rise to
AllReminders ==
    UNION {{Reminders(rx)[i] : i \in 1..Len(Reminders(rx))} :
           rx \in Prescriptions \cup TimingPrescriptions}

Timings == {r.timing : r \in AllReminders}

\* The string functions are evaluated once for each input of the model and
\* looked up afterwards.
ParsedTime == [t \in Timings |-> _parse_time(t)]

TimeOfDayOf == [hhmm \in {ParsedTime[t] : t \in Timings} |-> TimeOfDay(hhmm)]

\* line 169: the tag under which the job is registered
JobId(reminder) ==
    Replace(reminder.patient_name \o "_" \o reminder.medicine_name \o "_"
            \o reminder.timing, " ", "_")

JobIdOf == [r \in AllReminders |-> JobId(r)]

\* schedule.every().day.at(t): the first run is today at t when t is still
\* ahead of the clock, otherwise tomorrow at t; after a run at `clock` the
\* job is due at the next occurrence of t after `clock`
ScheduleNextRun(clock, at) ==
    IF TodayAt(clock, at) > clock THEN TodayAt(clock, at) ELSE TodayAt(clock, at) + Day

_get_next_reminder_time_lt(clock, reminder_time) ==
    LET reminder_datetime == TodayAt(clock, TimeOfDayOf[reminder_time])
    IN  IF reminder_datetime < clock THEN reminder_datetime + Day
        ELSE reminder_datetime

_get_next_reminder_time(clock, reminder_time) ==
    LET reminder_datetime == TodayAt(clock, TimeOfDayOf[reminder_time])
    IN  IF reminder_datetime <= clock THEN reminder_datetime + Day
        ELSE reminder_datetime

MapPut(map, key, val) ==
    [k \in DOMAIN map \cup {key} |-> IF k = key THEN val ELSE map[k]]

MapDel(map, key) == [k \in DOMAIN map \ {key} |-> map[k]]

MapGet(map, key, default) == IF key \in DOMAIN map THEN map[key] ELSE default

\* _save_scheduled_reminders_to_file: the whole cache replaces the file; a
\* failed write is logged and leaves the file as it was
_save_scheduled_reminders_to_file(st, write_ok) ==
    IF write_ok THEN [st EXCEPT !.snapshot = [exists |-> TRUE, data |-> st.cache]]
    ELSE st

_schedule_daily_reminder_savefirst(st, reminder, clock, write_ok) ==
    LET reminder_time == ParsedTime[reminder.timing]
        job == [tag |-> JobIdOf[reminder],
                at |-> TimeOfDayOf[reminder_time],
                next_run |-> ScheduleNextRun(clock, TimeOfDayOf[reminder_time]),
                reminder |-> reminder]
        scheduled_reminder ==
            [patient_name |-> reminder.patient_name,
             medicine_name |-> reminder.medicine_name,
             timing |-> reminder.timing,
             next_reminder |-> _get_next_reminder_time(clock, reminder_time),
             status |-> "active",
             created_at |-> clock]
        saved == _save_scheduled_reminders_to_file(st, write_ok)
    IN  [saved EXCEPT
            !.jobs = Append(st.jobs, job),
            !.cache = MapPut(st.cache, reminder.patient_name,
                             Append(MapGet(st.cache, reminder.patient_name, <<>>),
                                    scheduled_reminder))]

\* _schedule_daily_reminder on st = [jobs, cache, snapshot]
_schedule_daily_reminder(st, reminder, clock, write_ok) ==
    LET reminder_time == ParsedTime[reminder.timing]
        job == [tag |-> JobIdOf[reminder],
                at |-> TimeOfDayOf[reminder_time],
                next_run |-> ScheduleNextRun(clock, TimeOfDayOf[reminder_time]),
                reminder |-> reminder]
        scheduled_reminder ==
            [patient_name |-> reminder.patient_name,
             medicine_name |-> reminder.medicine_name,
             timing |-> reminder.timing,
             next_reminder |-> _get_next_reminder_time(clock, reminder_time),
             status |-> "active",
             created_at |-> clock]
        added == [st EXCEPT
                    !.jobs = Append(st.jobs, job),
                    !.cache = MapPut(st.cache, reminder.patient_name,
                                     Append(MapGet(st.cache, reminder.patient_name, <<>>),
                                            scheduled_reminder))]
    IN  _save_scheduled_reminders_to_file(added, write_ok)

RECURSIVE ScheduleAll(_, _, _, _)
ScheduleAll(st, reminders, clock, write_ok) ==
    IF reminders = <<>> THEN st
    ELSE ScheduleAll(_schedule_daily_reminder(st, Head(reminders), clock, write_ok),
                     Tail(reminders), clock, write_ok)

schedule_prescription_reminders(st, rx, clock, write_ok) ==
    ScheduleAll(st, Reminders(rx), clock, write_ok)

RECURSIVE NewestFirst(_)
\* get_all_prescriptions: the files of data/prescriptions, newest first
NewestFirst(files) ==
    IF DOMAIN files = {} THEN <<>>
    ELSE LET newest == CHOOSE k \in DOMAIN files : \A j \in DOMAIN files : j <= k
         IN  <<files[newest]>> \o NewestFirst(MapDel(files, newest))

get_all_prescriptions == NewestFirst(disk)

RECURSIVE LoadAll(_, _, _, _)
LoadAll(st, prescriptions, clock, write_ok) ==
    IF prescriptions = <<>> THEN st
    ELSE LoadAll(schedule_prescription_reminders(st, Head(prescriptions), clock, write_ok),
                 Tail(prescriptions), clock, write_ok)

load_and_schedule_all_prescriptions(st, clock, write_ok) ==
    LoadAll(st, get_all_prescriptions, clock, write_ok)

Store == [jobs |-> jobs, cache |-> cache, snapshot |-> snapshot]

SetStore(st) == jobs' = st.jobs /\ cache' = st.cache /\ snapshot' = st.snapshot

(***************************************************************************)
(* utils/user_manager.py: preferences, and the dispatch of one reminder    *)
(***************************************************************************)
HistoryCap == 100

Channels == <<"push", "email", "sms", "whatsapp">>

ChannelSet == {"push", "email", "sms", "whatsapp"}

EnabledKey(channel) == channel \o "_notifications"

\* the key of the contact a channel needs ("" for push, which needs none)
ContactKey(channel) ==
    CASE channel = "email" -> "email"
      [] channel = "sms" -> "phone"
      [] channel = "whatsapp" -> "whatsapp"
      [] OTHER -> ""

DEFAULT_PREFERENCES ==
    [k \in {"notification_sound", "reminder_frequency", "voice_enabled",
            "push_notifications", "email_notifications", "sms_notifications",
            "whatsapp_notifications", "email", "phone", "whatsapp"} |->
        CASE k = "notification_sound" -> "default"
          [] k = "reminder_frequency" -> "daily"
          [] k \in {"voice_enabled", "push_notifications"} -> TRUE
          [] k \in {"email_notifications", "sms_notifications",
                    "whatsapp_notifications"} -> FALSE
          [] OTHER -> ""]

LowerChar(c) ==
    CASE c = "A" -> "a" [] c = "B" -> "b" [] c = "C" -> "c"
      [] OTHER -> c

RECURSIVE Lower(_)
Lower(s) == IF Len(s) = 0 THEN "" ELSE LowerChar(CharAt(s, 1)) \o Lower(Tail(s))

sanitize_filename(name) ==
    Lower(Replace(Replace(Replace(name, " ", "_"), "/", "_"), "\\", "_"))

PreferencesFile == [p \in PatientNames |-> sanitize_filename(p)]

\* get_user_preferences: the stored file laid over the defaults
get_user_preferences(patient_name) ==
    LET file == PreferencesFile[patient_name]
    IN  IF file \in DOMAIN prefs
        THEN [k \in DOMAIN DEFAULT_PREFERENCES \cup DOMAIN prefs[file] |->
                 IF k \in DOMAIN prefs[file] THEN prefs[file][k]
                 ELSE DEFAULT_PREFERENCES[k]]
        ELSE DEFAULT_PREFERENCES

\* dict.get(key, default)
Get(dict, key, default) == IF key \in DOMAIN dict THEN dict[key] ELSE default

\* Python truth value of a stored flag (a bool) and of a stored contact (a str)
FlagSet(v) == v = TRUE

Present(v) == v # ""

(***************************************************************************)
(* services/notification_sender.py.  `world` is what the collaborator      *)
(* does: "ok" delivers, "off" is a channel that is not configured or has   *)
(* no device, "error" is an exception inside the sender.  Every sender     *)
(* catches it and returns False.                                           *)
(***************************************************************************)
Worlds == {"ok", "off", "error"}

\* the deployments of the scheduler: as shipped, or with a Firebase account
\* and a registered device, so that push is delivered
SchedulerWorlds ==
    {[c \in ChannelSet |-> IF c = "push" THEN w ELSE "off"] : w \in {"ok", "off"}}

Returned(value) == [raised |-> FALSE, value |-> value]

Raised == [raised |-> TRUE, value |-> FALSE]

send_push_notification(world) == Returned(world = "ok")

send_email_notification_raising(world) ==
    IF world = "error" THEN Raised ELSE Returned(world = "ok")

send_email_notification(world) == Returned(world = "ok")

send_sms_notification(world) == Returned(world = "ok")

send_whatsapp_notification(world) == Returned(world = "ok")

Send(channel, world) ==
    CASE channel = "push" -> send_push_notification(world)
      [] channel = "email" -> send_email_notification(world)
      [] channel = "sms" -> send_sms_notification(world)
      [] OTHER -> send_whatsapp_notification(world)

\* _send_medicine_reminder, lines 358, 368-370, 378-380, 388-390: is the
\* channel to be attempted
ReminderChannelDue_nocontact(preferences, channel) ==
    FlagSet(Get(preferences, EnabledKey(channel), channel = "push"))

ReminderChannelDue(preferences, channel) ==
    IF channel = "push" THEN FlagSet(Get(preferences, "push_notifications", TRUE))
    ELSE /\ FlagSet(Get(preferences, EnabledKey(channel), FALSE))
         /\ Present(Get(preferences, ContactKey(channel), ""))

\* test_notification, lines 292, 302, 312, 321
TestChannelDue(preferences, channel) ==
    IF channel = "push" THEN FlagSet(Get(preferences, "push_notifications", TRUE))
    ELSE /\ FlagSet(Get(preferences, EnabledKey(channel), FALSE))
         /\ Present(Get(preferences, ContactKey(channel), ""))

RECURSIVE FanOut(_, _, _, _)
\* the channel blocks in program order: acc collects what was attempted and
\* what succeeded; an exception leaving a sender ends the walk (the outer
\* except of the caller)
FanOut(due, world, i, acc) ==
    IF i > Len(Channels) THEN acc
    ELSE LET c == Channels[i]
         IN  IF ~due[c] THEN FanOut(due, world, i + 1, acc)
             ELSE LET r == Send(c, world[c])
                      tried == [acc EXCEPT !.attempted = Append(@, c),
                                           !.results = Append(@, world[c])]
                  IN  IF r.raised THEN [tried EXCEPT !.aborted = TRUE]
                      ELSE IF r.value
                           THEN FanOut(due, world, i + 1,
                                       [tried EXCEPT !.sent_via = Append(@, c)])
                           ELSE FanOut(due, world, i + 1, tried)

NoDispatch == [kind |-> "none", patient |-> "", attempted |-> <<>>, results |-> <<>>,
               sent_via |-> <<>>, aborted |-> FALSE, stored |-> FALSE]

HistoryFile(patient_name) == Replace(patient_name, " ", "_")

HistoryFileOf == [p \in PatientNames |-> HistoryFile(p)]

LastN_head(seq, n) == IF Len(seq) <= n THEN seq ELSE SubSeq(seq, 1, n)

LastN(seq, n) == IF Len(seq) <= n THEN seq ELSE SubSeq(seq, Len(seq) - n + 1, Len(seq))

\* _store_reminder_history: append, keep the last 100, write the file; an
\* error is logged and leaves the file as it was
_store_reminder_history(hist, reminder, success, sent_via, clock, write_ok) ==
    LET file == HistoryFileOf[reminder.patient_name]
        record == [timestamp |-> clock,
                   patient_name |-> reminder.patient_name,
                   medicine_name |-> reminder.medicine_name,
                   timing |-> reminder.timing,
                   sent_via |-> sent_via,
                   status |-> IF success THEN "sent" ELSE "failed"]
    IN  IF write_ok
        THEN MapPut(hist, file, LastN(Append(MapGet(hist, file, <<>>), record), HistoryCap))
        ELSE hist

_send_medicine_reminder_optimistic(reminder, world, write_ok) ==
    LET preferences == get_user_preferences(reminder.patient_name)
        due == [c \in ChannelSet |-> ReminderChannelDue(preferences, c)]
        walked == FanOut(due, world, 1,
                         [NoDispatch EXCEPT !.kind = "reminder",
                                            !.patient = reminder.patient_name])
        out == [walked EXCEPT !.sent_via = walked.attempted]
        sent_successfully == out.sent_via # <<>>
        store == sent_successfully /\ ~out.aborted
    IN  /\ sent' = [out EXCEPT !.stored = store /\ write_ok]
        /\ history' = IF store
                      THEN _store_reminder_history(history, reminder, sent_successfully,
                                                   out.sent_via, now, write_ok)
                      ELSE history
        /\ UNCHANGED <<prefs, fs, parsed, returned, written>>

\* _send_medicine_reminder
_send_medicine_reminder(reminder, world, write_ok) ==
    LET preferences == get_user_preferences(reminder.patient_name)
        due == [c \in ChannelSet |-> ReminderChannelDue(preferences, c)]
        out == FanOut(due, world, 1,
                      [NoDispatch EXCEPT !.kind = "reminder",
                                         !.patient = reminder.patient_name])
        sent_successfully == out.sent_via # <<>>
        store == sent_successfully /\ ~out.aborted
    IN  /\ sent' = [out EXCEPT !.stored = store /\ write_ok]
        /\ history' = IF store
                      THEN _store_reminder_history(history, reminder, sent_successfully,
                                                   out.sent_via, now, write_ok)
                      ELSE history
        /\ UNCHANGED <<prefs, fs, parsed, returned, written>>

\* every call of an operation of the scheduler is counted
Called(name, who, log) ==
    /\ n_calls < MaxCalls
    /\ n_calls' = n_calls + 1
    /\ op' = [Op(name, who) EXCEPT !.log = log]

\* test_notification (app.py); world gives the collaborator's behaviour for
\* each channel that is called
test_notification(patient_name) ==
    LET preferences == get_user_preferences(patient_name)
        due == [c \in ChannelSet |-> TestChannelDue(preferences, c)]
    IN  \E world \in [{c \in ChannelSet : due[c]} -> Worlds] :
            /\ sent' = FanOut(due, world, 1,
                              [NoDispatch EXCEPT !.kind = "test", !.patient = patient_name])
            /\ op' = Op("test_notification", patient_name)
            /\ UNCHANGED <<now, is_running, async_loop, loops, athreads, sthreads, jobs,
                           cache, snapshot, disk, pending, ingested, removed, prefs,
                           history, fs, parsed, returned, written>>

(***************************************************************************)
(* The schedule library's run_pending and the job function                 *)
(***************************************************************************)
Due(job, clock) == job.next_run <= clock

RECURSIVE DueSorted(_, _)
\* sorted(job for job in jobs if job.should_run): by next_run, ties in
\* registry order; the result lists indices into jobs
DueSorted(idx, clock) ==
    IF idx = {} THEN <<>>
    ELSE LET first == CHOOSE i \in idx :
                        \A j \in idx : \/ jobs[i].next_run < jobs[j].next_run
                                       \/ (jobs[i].next_run = jobs[j].next_run /\ i <= j)
         IN  <<first>> \o DueSorted(idx \ {first}, clock)

\* _schedule_reminder_job, line 274
LoopAvailable == async_loop # 0 /\ loops[async_loop] # "closed"

RECURSIVE Submissions(_)
\* run_coroutine_threadsafe for every job that ran; a coroutine handed to a
\* loop that is no longer running is queued and never run (live = FALSE)
Submissions(order) ==
    IF order = <<>> THEN <<>>
    ELSE <<[loop |-> async_loop,
            live |-> loops[async_loop] = "running",
            reminder |-> jobs[Head(order)].reminder]>> \o Submissions(Tail(order))

run_pending_catchup ==
    LET order == DueSorted({i \in 1..Len(jobs) : Due(jobs[i], now)}, now)
    IN  /\ jobs' = [i \in 1..Len(jobs) |->
                      IF Due(jobs[i], now)
                      THEN [jobs[i] EXCEPT !.next_run = @ + Day]
                      ELSE jobs[i]]
        /\ pending' = IF LoopAvailable THEN pending \o Submissions(order) ELSE pending
        /\ op' = [Op("run_pending", "") EXCEPT
                      !.fired = Len(order),
                      !.dropped = IF LoopAvailable THEN 0 ELSE Len(order)]

\* schedule.run_pending() at the instant now
run_pending ==
    LET order == DueSorted({i \in 1..Len(jobs) : Due(jobs[i], now)}, now)
    IN  /\ jobs' = [i \in 1..Len(jobs) |->
                      IF Due(jobs[i], now)
                      THEN [jobs[i] EXCEPT !.next_run = ScheduleNextRun(now, jobs[i].at)]
                      ELSE jobs[i]]
        /\ pending' = IF LoopAvailable THEN pending \o Submissions(order) ELSE pending
        /\ op' = [Op("run_pending", "") EXCEPT
                      !.fired = Len(order),
                      !.dropped = IF LoopAvailable THEN 0 ELSE Len(order)]

_run_scheduler_noexit(i) ==
    /\ sthreads[i].alive
    /\ now >= sthreads[i].wake
    /\ IF is_running
       THEN /\ run_pending
            /\ sthreads' = [sthreads EXCEPT ![i].wake = now + PollSleep]
       ELSE /\ sthreads' = [sthreads EXCEPT ![i].wake = now + PollSleep]
            /\ op' = Op("_run_scheduler sleep", "")
            /\ UNCHANGED <<jobs, pending>>
    /\ UNCHANGED <<now, is_running, async_loop, loops, athreads, cache, snapshot, disk,
                   n_calls, ingested, removed, dispatchVars, fs, parsed, returned, written>>

\* _run_scheduler: one pass of the while loop of thread i, entered at the
\* thread's start and after each time.sleep(60)
_run_scheduler(i) ==
    /\ sthreads[i].alive
    /\ now >= sthreads[i].wake
    /\ IF is_running
       THEN /\ run_pending
            /\ sthreads' = [sthreads EXCEPT ![i].wake = now + PollSleep]
       ELSE /\ sthreads' = [sthreads EXCEPT ![i].alive = FALSE]
            /\ op' = Op("_run_scheduler exit", "")
            /\ UNCHANGED <<jobs, pending>>
    /\ UNCHANGED <<now, is_running, async_loop, loops, athreads, cache, snapshot, disk,
                   n_calls, ingested, removed, dispatchVars, fs, parsed, returned, written>>

(***************************************************************************)
(* The thread of _start_async_loop                                         *)
(***************************************************************************)
\* run_async_loop, lines 82-85: create the loop, publish it, run it
AsyncLoopCreate(i) ==
    /\ athreads[i].pc = "init"
    /\ loops' = Append(loops, "running")
    /\ async_loop' = Len(loops) + 1
    /\ athreads' = [athreads EXCEPT ![i] = [pc |-> "run", loop |-> Len(loops) + 1]]
    /\ op' = Op("run_async_loop", "")
    /\ UNCHANGED <<now, is_running, sthreads, jobs, cache, snapshot, disk, pending,
                   n_calls, ingested, removed, dispatchVars, fs, parsed, returned, written>>

\* run_async_loop, lines 85-89: run_forever returns once the loop was stopped
\* and has run what was queued before the stop; finally closes whatever loop
\* self.async_loop names now, which raises when that loop is running
AsyncLoopExit(i) ==
    /\ athreads[i].pc = "run"
    /\ loops[athreads[i].loop] = "stopping"
    /\ \A k \in 1..Len(pending) : ~(pending[k].loop = athreads[i].loop /\ pending[k].live)
    /\ LET own == athreads[i].loop
           stopped == [loops EXCEPT ![own] = "stopped"]
       IN  loops' = IF stopped[async_loop] \in {"running", "stopping"} THEN stopped
                    ELSE [stopped EXCEPT ![async_loop] = "closed"]
    /\ athreads' = [athreads EXCEPT ![i].pc = "done"]
    /\ op' = Op("run_async_loop exit", "")
    /\ UNCHANGED <<now, is_running, async_loop, sthreads, jobs, cache, snapshot, disk,
                   pending, n_calls, ingested, removed, dispatchVars, fs, parsed, returned, written>>

CoroutineRun_backoff(k, worlds) ==
    /\ pending[k].live
    /\ \A j \in 1..(k - 1) : ~(pending[j].loop = pending[k].loop /\ pending[j].live)
    /\ \E world \in worlds, write_ok \in WriteOutcomes :
           _send_medicine_reminder(pending[k].reminder, world, write_ok)
    /\ pending' = [j \in 1..(Len(pending) - 1) |->
                      IF j < k THEN pending[j] ELSE pending[j + 1]]
    /\ op' = Op("_send_medicine_reminder", pending[k].reminder.patient_name)
    /\ jobs' = [i \in 1..Len(jobs) |->
                   IF jobs[i].reminder = pending[k].reminder /\ sent'.sent_via = <<>>
                   THEN [jobs[i] EXCEPT !.next_run = @ + Day]
                   ELSE jobs[i]]
    /\ UNCHANGED <<now, is_running, async_loop, loops, athreads, sthreads, cache,
                   snapshot, disk, n_calls, ingested, removed>>

\* the dedicated loop runs the oldest coroutine queued on it
CoroutineRun(k, worlds) ==
    /\ pending[k].live
    /\ \A j \in 1..(k - 1) : ~(pending[j].loop = pending[k].loop /\ pending[j].live)
    /\ \E world \in worlds, write_ok \in WriteOutcomes :
           _send_medicine_reminder(pending[k].reminder, world, write_ok)
    /\ pending' = [j \in 1..(Len(pending) - 1) |->
                      IF j < k THEN pending[j] ELSE pending[j + 1]]
    /\ op' = Op("_send_medicine_reminder", pending[k].reminder.patient_name)
    /\ UNCHANGED <<now, is_running, async_loop, loops, athreads, sthreads, jobs, cache,
                   snapshot, disk, n_calls, ingested, removed>>

(***************************************************************************)
(* The operations of MedicationScheduler called by app.py                  *)
(***************************************************************************)
\* lines 64-77: what start_scheduler does once past the is_running guard.
\* The wait of _start_async_loop ends as soon as async_loop is not None: on
\* a first start that is after the new thread published its loop, on a
\* later start the attribute still names the previous loop and the new
\* thread is left to publish its own whenever it gets to run
DoStart(write_ok) ==
    /\ is_running' = TRUE
    /\ IF async_loop = 0
       THEN /\ loops' = Append(loops, "running")
            /\ async_loop' = Len(loops) + 1
            /\ athreads' = Append(athreads, [pc |-> "run", loop |-> Len(loops) + 1])
       ELSE /\ athreads' = Append(athreads, [pc |-> "init", loop |-> 0])
            /\ UNCHANGED <<loops, async_loop>>
    /\ SetStore(load_and_schedule_all_prescriptions(Store, now, write_ok))
    /\ sthreads' = Append(sthreads, [alive |-> TRUE, wake |-> now])
    /\ UNCHANGED <<now, disk, pending, ingested, removed, dispatchVars, fs, parsed, returned, written>>

start_scheduler_unguarded ==
    /\ Called("start_scheduler", "", "Medication scheduler started successfully")
    /\ \E write_ok \in WriteOutcomes : DoStart(write_ok)

start_scheduler ==
    /\ Called("start_scheduler", "",
              IF is_running THEN "Scheduler is already running"
              ELSE "Medication scheduler started successfully")
    /\ IF is_running
       THEN UNCHANGED <<now, is_running, async_loop, loops, athreads, sthreads, jobs,
                        cache, snapshot, disk, pending, ingested, removed, dispatchVars, fs, parsed, returned, written>>
       ELSE \E write_ok \in WriteOutcomes : DoStart(write_ok)

stop_scheduler ==
    /\ Called("stop_scheduler", "", "Medication scheduler stopped")
    /\ is_running' = FALSE
    /\ jobs' = <<>>
    /\ loops' = IF LoopAvailable /\ loops[async_loop] = "running"
                THEN [loops EXCEPT ![async_loop] = "stopping"]
                ELSE loops
    /\ UNCHANGED <<now, async_loop, athreads, sthreads, cache, snapshot, disk, pending,
                   ingested, removed, dispatchVars, fs, parsed, returned, written>>

\* str(job.tags) of a job carrying one tag
TagsStr(job) == "{'" \o job.tag \o "'}"

\* line 469
BelongsTo(job, patient_name) == Contains(TagsStr(job), Replace(patient_name, " ", "_"))

BelongsToOf ==
    [r \in AllReminders |->
        [p \in PatientNames |-> BelongsTo([tag |-> JobIdOf[r]], p)]]

RECURSIVE Filter(_, _)
Filter(seq, patient_name) ==
    IF seq = <<>> THEN <<>>
    ELSE IF BelongsToOf[Head(seq).reminder][patient_name]
         THEN Filter(Tail(seq), patient_name)
         ELSE <<Head(seq)>> \o Filter(Tail(seq), patient_name)

remove_patient_reminders(patient_name) ==
    /\ Called("remove_patient_reminders", patient_name, "")
    /\ \E write_ok \in WriteOutcomes :
           SetStore(_save_scheduled_reminders_to_file(
                        [jobs |-> Filter(jobs, patient_name),
                         cache |-> MapDel(cache, patient_name),
                         snapshot |-> snapshot], write_ok))
    /\ ingested' = [rx \in Prescriptions |->
                        IF rx.Patient = patient_name THEN 0 ELSE ingested[rx]]
    /\ removed' = removed \cup {patient_name}
    /\ UNCHANGED <<now, is_running, async_loop, loops, athreads, sthreads, disk, pending,
                   dispatchVars, fs, parsed, returned, written>>

\* app.py analyze_prescription on the analyzer's result rx: save_json_data
\* names the file by the clock's second and raises when the write fails;
\* add_prescription_reminders then schedules the reminders
analyze_prescription(rx) ==
    /\ Called("analyze_prescription", rx.Patient, "")
    /\ \E saved \in WriteOutcomes, write_ok \in WriteOutcomes :
          IF saved
          THEN /\ disk' = MapPut(disk, now, rx)
               /\ SetStore(schedule_prescription_reminders(Store, rx, now, write_ok))
               /\ ingested' = [ingested EXCEPT ![rx] = @ + 1]
               /\ removed' = removed \ {rx.Patient}
          ELSE UNCHANGED <<disk, jobs, cache, snapshot, ingested, removed>>
    /\ UNCHANGED <<now, is_running, async_loop, loops, athreads, sthreads, pending,
                   dispatchVars, fs, parsed, returned, written>>

\* the clock moves on
Tick ==
    /\ \E t \in Instants :
          /\ t > now
          /\ \A u \in Instants : u > now => t <= u
          /\ now' = t
    /\ op' = Op("tick", "")
    /\ UNCHANGED <<schedVars, dispatchVars, fs, parsed, returned, written>>

NoParse == [raw |-> "", result |-> ""]

NoReturn == [call |-> "", who |-> "", arg |-> 0, value |-> <<>>]

NoneWritten == [p \in PatientNames |-> EmptyMap]

Init ==
    /\ now = FirstInstant
    /\ is_running = FALSE
    /\ async_loop = 0
    /\ loops = <<>>
    /\ athreads = <<>>
    /\ sthreads = <<>>
    /\ jobs = <<>>
    /\ cache = EmptyMap
    /\ snapshot = [exists |-> FALSE, data |-> EmptyMap]
    /\ disk = EmptyMap
    /\ pending = <<>>
    /\ prefs = EmptyMap
    /\ history = EmptyMap
    /\ sent = NoDispatch
    /\ fs = "ok"
    /\ op = Op("__init__", "")
    /\ n_calls = 0
    /\ ingested = [rx \in Prescriptions |-> 0]
    /\ removed = {}
    /\ parsed = NoParse
    /\ returned = NoReturn
    /\ written = NoneWritten

Next ==
    \/ start_scheduler
    \/ stop_scheduler
    \/ \E rx \in Prescriptions : analyze_prescription(rx)
    \/ \E p \in PatientNames : remove_patient_reminders(p)
    \/ \E i \in 1..Len(sthreads) : _run_scheduler(i)
    \/ \E i \in 1..Len(athreads) : AsyncLoopCreate(i)
    \/ \E i \in 1..Len(athreads) : AsyncLoopExit(i)
    \/ \E k \in 1..Len(pending) : CoroutineRun(k, SchedulerWorlds)
    \/ Tick

Spec == Init /\ [][Next]_vars

(***************************************************************************)
(* The dispatch operations on their own: every preference record the API   *)
(* can store, every outcome of the channel collaborators.  How a reminder  *)
(* comes to fire is the part of Spec; here a reminder of some prescription *)
(* has fired and its coroutine runs.                                       *)
(***************************************************************************)
\* the body of POST /patients/{name}/preferences: the pydantic model
\* UserPreferences supplies every key
PreferenceInputs ==
    { [k \in DOMAIN DEFAULT_PREFERENCES |->
          IF k \in {"email", "phone", "whatsapp"} THEN contacts[k]
          ELSE IF k \in {"notification_sound", "reminder_frequency", "voice_enabled"}
               THEN DEFAULT_PREFERENCES[k]
               ELSE flags[k]] :
      flags \in [{"push_notifications", "email_notifications", "sms_notifications",
                  "whatsapp_notifications"} -> BOOLEAN],
      contacts \in [{"email", "phone", "whatsapp"} -> {"", "x"}] }

StoredPreferences_replace(existing, preferences, clock) ==
    [k \in DOMAIN preferences \cup {"updated_at"} |->
        IF k = "updated_at" THEN clock ELSE preferences[k]]

\* update_user_preferences, lines 87-89: the record it writes, the input
\* laid over what get_user_preferences returned and stamped
StoredPreferences(existing, preferences, clock) ==
    [k \in DOMAIN existing \cup DOMAIN preferences \cup {"updated_at"} |->
        IF k = "updated_at" THEN clock
        ELSE IF k \in DOMAIN preferences THEN preferences[k]
        ELSE existing[k]]

DispatchFired(reminder) ==
    /\ n_calls < MaxDispatch
    /\ n_calls' = n_calls + 1
    /\ LET preferences == get_user_preferences(reminder.patient_name)
           called == {c \in ChannelSet : ReminderChannelDue(preferences, c)}
       IN  \E world \in [called -> Worlds], write_ok \in WriteOutcomes :
               _send_medicine_reminder(reminder, world, write_ok)
    /\ op' = Op("_send_medicine_reminder", reminder.patient_name)
    /\ UNCHANGED <<now, is_running, async_loop, loops, athreads, sthreads, jobs, cache,
                   snapshot, disk, pending, ingested, removed>>

TestNotification(patient_name) ==
    /\ test_notification(patient_name)
    /\ UNCHANGED n_calls

\* the preferences of "Al Bo" were stored through the API, or never
InitDispatch ==
    /\ now = FirstInstant
    /\ is_running = FALSE
    /\ async_loop = 0
    /\ loops = <<>>
    /\ athreads = <<>>
    /\ sthreads = <<>>
    /\ jobs = <<>>
    /\ cache = EmptyMap
    /\ snapshot = [exists |-> FALSE, data |-> EmptyMap]
    /\ disk = EmptyMap
    /\ pending = <<>>
    /\ prefs \in {EmptyMap}
                \cup {MapPut(EmptyMap, PreferencesFile["Al Bo"],
                             StoredPreferences(DEFAULT_PREFERENCES, preferences,
                                               FirstInstant)) :
                      preferences \in PreferenceInputs}
    /\ history = EmptyMap
    /\ sent = NoDispatch
    /\ fs = "ok"
    /\ op = Op("__init__", "")
    /\ n_calls = 0
    /\ ingested = [rx \in Prescriptions |-> 0]
    /\ removed = {}
    /\ parsed = NoParse
    /\ returned = NoReturn
    /\ written = NoneWritten

NextDispatch ==
    \/ \E reminder \in FiredReminders : DispatchFired(reminder)
    \/ \E p \in PatientNames : TestNotification(p)

SpecDispatch == InitDispatch /\ [][NextDispatch]_vars

(***************************************************************************)
(* The history file of a patient who has been reminded for some days: the  *)
(* file holds one record a day, written at 08:00, and is empty, short, one *)
(* short of the cap or at the cap when a reminder is dispatched.           *)
(***************************************************************************)
HistoryLengths == {0, 1, HistoryCap - 1, HistoryCap}

PastRecords(n) ==
    [i \in 1..n |->
        [timestamp |-> TimeOfDayOf["08:00"] - (n - i + 1) * Day,
         patient_name |-> "Al",
         medicine_name |-> "Zinc",
         timing |-> "8:00 am",
         sent_via |-> <<"push">>,
         status |-> "sent"]]

InitHistory ==
    /\ now = FirstInstant
    /\ is_running = FALSE
    /\ async_loop = 0
    /\ loops = <<>>
    /\ athreads = <<>>
    /\ sthreads = <<>>
    /\ jobs = <<>>
    /\ cache = EmptyMap
    /\ snapshot = [exists |-> FALSE, data |-> EmptyMap]
    /\ disk = EmptyMap
    /\ pending = <<>>
    /\ prefs = EmptyMap
    /\ \E n \in HistoryLengths :
          history = IF n = 0 THEN EmptyMap
                    ELSE MapPut(EmptyMap, HistoryFileOf["Al"], PastRecords(n))
    /\ sent = NoDispatch
    /\ fs = "ok"
    /\ op = Op("__init__", "")
    /\ n_calls = 0
    /\ ingested = [rx \in Prescriptions |-> 0]
    /\ removed = {}
    /\ parsed = NoParse
    /\ returned = NoReturn
    /\ written = NoneWritten

\* the names GET /patients/{name}/history is called with: the patients, and
\* a patient who was never reminded
QueryNames == PatientNames \cup {"Al_Bo"}

\* the days parameter of the query
HistoryDays == {0, 1, 7}

\* get_reminder_history, lines 509-532
get_reminder_history(patient_name, days) ==
    LET history_file == HistoryFile(patient_name)
        cutoff_date == now - days * Day
        Recent(record) == record.timestamp > cutoff_date
    IN  IF history_file \notin DOMAIN history THEN <<>>
        ELSE SelectSeq(history[history_file], Recent)

\* GET /patients/{name}/history
GetReminderHistory(patient_name, days) ==
    /\ returned' = [call |-> "get_reminder_history", who |-> patient_name, arg |-> days,
                    value |-> get_reminder_history(patient_name, days)]
    /\ op' = Op("get_reminder_history", patient_name)
    /\ UNCHANGED <<now, schedVars, dispatchVars, fs, parsed, written>>

NextHistory ==
    \/ \E reminder \in FiredReminders : DispatchFired(reminder)
    \/ \E p \in QueryNames, days \in HistoryDays : GetReminderHistory(p, days)
    \/ Tick

SpecHistory == InitHistory /\ [][NextHistory]_vars

(***************************************************************************)
(* The scheduler constructed at 08:05, after the 08:00 trigger of the day. *)
(***************************************************************************)
LateStart == TimeOfDay("08:05")

InitLate ==
    /\ now = LateStart
    /\ is_running = FALSE
    /\ async_loop = 0
    /\ loops = <<>>
    /\ athreads = <<>>
    /\ sthreads = <<>>
    /\ jobs = <<>>
    /\ cache = EmptyMap
    /\ snapshot = [exists |-> FALSE, data |-> EmptyMap]
    /\ disk = EmptyMap
    /\ pending = <<>>
    /\ prefs = EmptyMap
    /\ history = EmptyMap
    /\ sent = NoDispatch
    /\ fs = "ok"
    /\ op = Op("__init__", "")
    /\ n_calls = 0
    /\ ingested = [rx \in Prescriptions |-> 0]
    /\ removed = {}
    /\ parsed = NoParse
    /\ returned = NoReturn
    /\ written = NoneWritten

SpecLate == InitLate /\ [][Next]_vars

(***************************************************************************)
(* The scheduler when the process is suspended for days: the clock goes    *)
(* from day 0 to 07:59 and 08:00 of day 3 with no poll in between.         *)
(***************************************************************************)
DaysAsleep == 3

AsleepInstants == {DaysAsleep * Day + t : t \in ClockTimes}

Wake ==
    /\ \E t \in AsleepInstants :
          /\ t > now
          /\ \A u \in AsleepInstants : u > now => t <= u
          /\ now' = t
    /\ op' = Op("tick", "")
    /\ UNCHANGED <<schedVars, dispatchVars, fs, parsed, returned, written>>

NextAsleep ==
    \/ start_scheduler
    \/ stop_scheduler
    \/ \E rx \in Prescriptions : analyze_prescription(rx)
    \/ \E p \in PatientNames : remove_patient_reminders(p)
    \/ \E i \in 1..Len(sthreads) : _run_scheduler(i)
    \/ \E i \in 1..Len(athreads) : AsyncLoopCreate(i)
    \/ \E i \in 1..Len(athreads) : AsyncLoopExit(i)
    \/ \E k \in 1..Len(pending) : CoroutineRun(k, SchedulerWorlds)
    \/ Wake

SpecAsleep == Init /\ [][NextAsleep]_vars

(***************************************************************************)
(* The scheduler given prescriptions whose timings are ranges or frequency *)
(* codes.                                                                  *)
(***************************************************************************)
\* add_new_prescription_reminders, lines 452-462
add_new_prescription_reminders(rx) ==
    /\ Called("add_new_prescription_reminders", rx.Patient, "")
    /\ \E write_ok \in WriteOutcomes :
           SetStore(schedule_prescription_reminders(Store, rx, now, write_ok))
    /\ UNCHANGED <<now, is_running, async_loop, loops, athreads, sthreads, disk, pending,
                   ingested, removed, dispatchVars, fs, parsed, returned, written>>

NextTimings ==
    \/ \E rx \in TimingPrescriptions : add_new_prescription_reminders(rx)
    \/ Tick

SpecTimings == Init /\ [][NextTimings]_vars

(***************************************************************************)
(* _parse_time on its own: the timing strings a prescription can carry.    *)
(***************************************************************************)
Hours12 == 1..12

Minutes == 0..MaxMinute

Suffixes == {"AM", "PM"}

\* "1:00PM"
WithColon(h, m, suffix) == IntStr(h) \o ":" \o Fmt02d(m) \o suffix

\* "1PM"
WithoutColon(h, suffix) == IntStr(h) \o suffix

\* the 12-hour clock strings, each with the hour, minute and suffix written
Clock12 ==
    {<<WithColon(h, m, suffix), h, m, suffix>> :
        h \in Hours12, m \in Minutes, suffix \in Suffixes}
    \cup {<<WithoutColon(h, suffix), h, 0, suffix>> : h \in Hours12, suffix \in Suffixes}

\* strings that are no time of day: empty, hour or minute not a number, hour
\* of 24 or more, minute of 60 or more
MalformedStrings ==
    {"", "abc", "8:xx", "xx:30", "8:30:15", "24:00", "25:30", "24", "10:60", "8:75",
     "13PM", "24PM", "1:60PM", "12:60AM", "24:00AM", "120PM", "120AM", "120:00AM",
     "125:30AM"}

ParseInputs == {c[1] : c \in Clock12} \cup MalformedStrings

InitParse ==
    /\ now = FirstInstant
    /\ is_running = FALSE
    /\ async_loop = 0
    /\ loops = <<>>
    /\ athreads = <<>>
    /\ sthreads = <<>>
    /\ jobs = <<>>
    /\ cache = EmptyMap
    /\ snapshot = [exists |-> FALSE, data |-> EmptyMap]
    /\ disk = EmptyMap
    /\ pending = <<>>
    /\ prefs = EmptyMap
    /\ history = EmptyMap
    /\ sent = NoDispatch
    /\ fs = "ok"
    /\ op = Op("__init__", "")
    /\ n_calls = 0
    /\ ingested = [rx \in Prescriptions |-> 0]
    /\ removed = {}
    /\ parsed \in {[raw |-> raw, result |-> ""] : raw \in ParseInputs}
    /\ returned = NoReturn
    /\ written = NoneWritten

\* the call returns
ParseTime ==
    /\ parsed.result = ""
    /\ parsed' = [parsed EXCEPT !.result = _parse_time(parsed.raw)]
    /\ op' = Op("_parse_time", "")
    /\ UNCHANGED <<now, schedVars, dispatchVars, fs, returned, written>>

NextParse == ParseTime

SpecParse == InitParse /\ [][NextParse]_vars

(***************************************************************************)
(* The polling threads under a fair scheduler: a thread that can make its  *)
(* next pass eventually makes it, and the clock moves on to the end of the *)
(* period.                                                                 *)
(***************************************************************************)
LastInstant == CHOOSE t \in Instants : \A u \in Instants : u <= t

\* a pass of the i-th polling thread, if there is one
PollStep(i) == i \in 1..Len(sthreads) /\ _run_scheduler(i)

NextStop ==
    \/ start_scheduler
    \/ stop_scheduler
    \/ \E rx \in Prescriptions : analyze_prescription(rx)
    \/ \E i \in 1..MaxCalls : PollStep(i)
    \/ Tick

SpecStop ==
    /\ Init
    /\ [][NextStop]_vars
    /\ WF_vars(Tick)
    /\ \A i \in 1..MaxCalls : WF_vars(PollStep(i))

(***************************************************************************)
(* utils/user_manager.py on its own: preferences are updated with records  *)
(* that hold some of the keys, and read back.                              *)
(***************************************************************************)
\* the preferences argument of update_user_preferences: any dict
PreferenceUpdates ==
    { [email_notifications |-> TRUE],
      [email_notifications |-> FALSE, email |-> "x"],
      [email |-> "y"],
      [push_notifications |-> FALSE, theme |-> "dark"] }

\* dict.update: the keys of `over` laid over `base`
Overlay(base, over) ==
    [k \in DOMAIN base \cup DOMAIN over |->
        IF k \in DOMAIN over THEN over[k] ELSE base[k]]

\* update_user_preferences, lines 78-100: a failed write is logged and the
\* call returns False
update_user_preferences(patient_name, preferences) ==
    /\ n_calls < MaxCalls
    /\ n_calls' = n_calls + 1
    /\ \E write_ok \in WriteOutcomes :
          /\ prefs' = IF write_ok
                       THEN MapPut(prefs, PreferencesFile[patient_name],
                                   StoredPreferences(get_user_preferences(patient_name),
                                                     preferences, now))
                       ELSE prefs
          /\ written' = IF write_ok
                         THEN [written EXCEPT ![patient_name] = Overlay(@, preferences)]
                         ELSE written
          /\ returned' = [call |-> "update_user_preferences", who |-> patient_name,
                          arg |-> preferences, value |-> write_ok]
    /\ op' = Op("update_user_preferences", patient_name)
    /\ UNCHANGED <<now, is_running, async_loop, loops, athreads, sthreads, jobs, cache,
                   snapshot, disk, pending, ingested, removed, history, sent, fs, parsed>>

\* GET /patients/{name}/preferences
GetUserPreferences(patient_name) ==
    /\ returned' = [call |-> "get_user_preferences", who |-> patient_name, arg |-> 0,
                    value |-> get_user_preferences(patient_name)]
    /\ op' = Op("get_user_preferences", patient_name)
    /\ UNCHANGED <<now, schedVars, dispatchVars, fs, parsed, written>>

NextPrefs ==
    \/ \E p \in PatientNames, preferences \in PreferenceUpdates :
           update_user_preferences(p, preferences)
    \/ \E p \in PatientNames : GetUserPreferences(p)
    \/ Tick

SpecPrefs == Init /\ [][NextPrefs]_vars

(***************************************************************************)
(* alert/med_alert.py: the legacy parser parse_timing and schedule_reminders*)
(***************************************************************************)
NoTime == [ok |-> FALSE, hour |-> 0, minute |-> 0]

\* datetime.strptime(s, "%I:%M%p"): an hour 1..12 of one or two digits, a
\* colon, a minute 0..59 of one or two digits, AM or PM in either case;
\* ok = FALSE stands for the ValueError
Strptime12(s) ==
    LET u == Upper(s)
        parts == Split(u, ":")
    IN  IF Len(parts) # 2 \/ Len(parts[2]) < 3 THEN NoTime
        ELSE LET hourText == parts[1]
                 minuteText == SubSeq(parts[2], 1, Len(parts[2]) - 2)
                 suffix == SubSeq(parts[2], Len(parts[2]) - 1, Len(parts[2]))
             IN  IF /\ AllDigits(hourText) /\ Len(hourText) <= 2
                    /\ DigitsVal(hourText) \in 1..12
                    /\ AllDigits(minuteText) /\ Len(minuteText) <= 2
                    /\ DigitsVal(minuteText) <= MaxMinute
                    /\ suffix \in {"AM", "PM"}
                 THEN [ok |-> TRUE,
                       hour |-> (DigitsVal(hourText) % 12)
                                + (IF suffix = "PM" THEN 12 ELSE 0),
                       minute |-> DigitsVal(minuteText)]
                 ELSE NoTime

\* lines 524-530 and 534-539: strptime inside try; a ValueError is logged
\* and leaves the list empty.  A parsed time is given as the "%H:%M" that
\* schedule_reminders formats it to
TryParse(text) ==
    LET parsed_time == Strptime12(Strip(text))
    IN  IF parsed_time.ok
        THEN [raised |-> FALSE, logged |-> FALSE,
              times |-> <<Fmt02d(parsed_time.hour) \o ":" \o Fmt02d(parsed_time.minute)>>]
        ELSE [raised |-> FALSE, logged |-> TRUE, times |-> <<>>]

\* parse_timing, lines 514-540: the unpacking of split("-") at line 521 is
\* outside the try and raises ValueError unless it yields two parts
parse_timing(timing_str) ==
    IF Contains(timing_str, "-")
    THEN LET parts == Split(timing_str, "-")
         IN  IF Len(parts) # 2
             THEN [raised |-> TRUE, logged |-> FALSE, times |-> <<>>]
             ELSE TryParse(parts[1])
    ELSE TryParse(timing_str)

\* the timing strings of the prescriptions given to the legacy scheduler
LegacyTimings ==
    {"8:00AM", "12:30PM", "12:05am", "1:00AM-5:00PM", "8AM", "8:00 AM", "after lunch",
     "", "13:00PM", "1PM-5PM", "1-0-1", "8:00AM-1:00PM-6:00PM"}

ParsedTiming == [t \in LegacyTimings |-> parse_timing(t)]

\* the timings lists given to schedule_reminders: one or two timings of a
\* medicine of patient "Al"
TimingsLists ==
    {<<[patient_name |-> "Al", medicine_name |-> "Zinc", timing |-> t]>> :
        t \in LegacyTimings}
    \cup {<<[patient_name |-> "Al", medicine_name |-> "Zinc", timing |-> t],
            [patient_name |-> "Al", medicine_name |-> "Zinc", timing |-> u]>> :
          t \in {"1-0-1", "8AM", "8:00AM"}, u \in {"12:30PM", "1-0-1"}}

RECURSIVE LegacyScheduleAll(_, _, _)
\* schedule_reminders, lines 570-589: the loop over the timings; an
\* exception of parse_timing leaves the loop and the function
LegacyScheduleAll(registry, timings_list, clock) ==
    IF timings_list = <<>> THEN [jobs |-> registry, raised |-> FALSE]
    ELSE LET timing_info == Head(timings_list)
             parsed_times == ParsedTiming[timing_info.timing]
         IN  IF parsed_times.raised THEN [jobs |-> registry, raised |-> TRUE]
             ELSE IF parsed_times.times = <<>>
                  THEN LegacyScheduleAll(registry, Tail(timings_list), clock)
                  ELSE LET schedule_time == parsed_times.times[1]
                           job == [tag |-> "",
                                   at |-> TimeOfDay(schedule_time),
                                   next_run |-> ScheduleNextRun(clock,
                                                                TimeOfDay(schedule_time)),
                                   reminder |-> timing_info]
                       IN  LegacyScheduleAll(Append(registry, job),
                                             Tail(timings_list), clock)

schedule_reminders(timings_list) ==
    /\ n_calls < MaxCalls
    /\ n_calls' = n_calls + 1
    /\ LET done == LegacyScheduleAll(jobs, timings_list, now)
       IN  /\ jobs' = done.jobs
           /\ returned' = [call |-> "schedule_reminders", who |-> "Al",
                           arg |-> timings_list, value |-> done.raised]
    /\ op' = Op("schedule_reminders", "Al")
    /\ UNCHANGED <<now, is_running, async_loop, loops, athreads, sthreads, cache,
                   snapshot, disk, pending, ingested, removed, dispatchVars, fs, parsed,
                   written>>

\* a call of parse_timing on its own
ParseTiming(timing_str) ==
    /\ returned' = [call |-> "parse_timing", who |-> "", arg |-> timing_str,
                    value |-> ParsedTiming[timing_str]]
    /\ op' = Op("parse_timing", "")
    /\ UNCHANGED <<now, schedVars, dispatchVars, fs, parsed, written>>

NextLegacy ==
    \/ \E timing_str \in LegacyTimings : ParseTiming(timing_str)
    \/ \E timings_list \in TimingsLists : schedule_reminders(timings_list)
    \/ Tick

SpecLegacy == Init /\ [][NextLegacy]_vars

(***************************************************************************)
(* Properties                                                              *)
(***************************************************************************)
CacheEntries == {<<p, k>> : p \in PatientNames, k \in 1..3 * MaxCalls + 3}

\* the entries of the reminder cache, as <<patient, index>>
Entries == {e \in CacheEntries : e[1] \in DOMAIN cache /\ e[2] <= Len(cache[e[1]])}

Entry(e) == cache[e[1]][e[2]]

Trigger(timing) == TimeOfDayOf[ParsedTime[timing]]

\* C1: the next_reminder stored with a reminder is the first instant after
\* its insertion (created_at) whose time of day is the trigger time: today
\* at the trigger time if that is still ahead, otherwise tomorrow at it.
C1_NextFireAfterInsertion ==
    \A e \in Entries :
        /\ Entry(e).next_reminder > Entry(e).created_at
        /\ Entry(e).next_reminder <= Entry(e).created_at + Day
        /\ Entry(e).next_reminder % Day = Trigger(Entry(e).timing)

\* a reminder was added at the very second of its trigger time and is due
\* tomorrow, and another was added with its trigger time still ahead
C1_Witness ==
    /\ \E e \in Entries :
          /\ Entry(e).created_at % Day = Trigger(Entry(e).timing)
          /\ Entry(e).next_reminder = Entry(e).created_at + Day
    /\ \E e \in Entries :
          /\ Entry(e).created_at % Day < Trigger(Entry(e).timing)
          /\ Entry(e).next_reminder \div Day = Entry(e).created_at \div Day

\* the cache entries and the snapshot entries of the reminder a job carries
SameReminder(entry, reminder) ==
    /\ entry.patient_name = reminder.patient_name
    /\ entry.medicine_name = reminder.medicine_name
    /\ entry.timing = reminder.timing

\* C2: when run_pending runs a due job, the next_reminder of that reminder
\* in the cache and in the snapshot moves on by exactly one day.
C2_FiringAdvancesNextFire ==
    [][op'.name = "run_pending" =>
          \A i \in 1..Len(jobs) : Due(jobs[i], now) =>
              \A e \in Entries : SameReminder(Entry(e), jobs[i].reminder) =>
                  /\ cache'[e[1]][e[2]].next_reminder = Entry(e).next_reminder + Day
                  /\ snapshot'.data[e[1]][e[2]].next_reminder
                         = snapshot.data[e[1]][e[2]].next_reminder + Day]_vars

LiveLoops == {i \in 1..Len(sthreads) : sthreads[i].alive}

\* C3: at most one thread is executing _run_scheduler.
C3_OneSchedulerLoop == Cardinality(LiveLoops) <= 1

\* C4: start_scheduler called while the scheduler is running changes
\* nothing: no thread, no loop, no reload of prescriptions, no reminder and
\* no job.
C4_StartWhileRunningIsNoOp ==
    [][(op'.name = "start_scheduler" /\ is_running) =>
          UNCHANGED <<is_running, async_loop, loops, athreads, sthreads, jobs, cache,
                      snapshot, disk, pending>>]_vars

\* start_scheduler was called on a running scheduler that holds reminders
C4_Witness ==
    /\ op.log = "Scheduler is already running"
    /\ is_running
    /\ jobs # <<>>
    /\ DOMAIN disk # {}

\* C5: stop_scheduler called while the scheduler is not running leaves
\* is_running, the registered jobs and the reminder cache as they were.
C5_StopWhileStoppedIsNoOp ==
    [][(op'.name = "stop_scheduler" /\ ~is_running) =>
          UNCHANGED <<is_running, jobs, cache>>]_vars

\* C6: remove_patient_reminders for a patient without reminders in the
\* cache leaves every job and every other patient's reminders as they were.
C6_RemoveUnknownIsNoOp ==
    [][(op'.name = "remove_patient_reminders" /\ op'.who \notin DOMAIN cache) =>
          /\ jobs' = jobs
          /\ \A q \in DOMAIN cache : q \in DOMAIN cache' /\ cache'[q] = cache[q]]_vars

CacheCount(reminder) ==
    Cardinality({e \in Entries : SameReminder(Entry(e), reminder)})

JobCount(reminder) ==
    Cardinality({i \in 1..Len(jobs) : jobs[i].reminder = reminder})

\* C7: the cache holds one reminder for each (medicine, timing) pair of each
\* prescription ingested (and not removed since), and while the scheduler
\* runs the registry holds one job for each.
C7_OneReminderPerPair ==
    \A rx \in Prescriptions : \A i \in 1..Len(Reminders(rx)) :
        /\ CacheCount(Reminders(rx)[i]) = ingested[rx]
        /\ is_running => JobCount(Reminders(rx)[i]) = ingested[rx]

\* C8: a patient whose reminders were removed has no reminder in the cache
\* and no job until a prescription of that patient is ingested again.
C8_RemovedStayRemoved ==
    \A p \in removed :
        /\ p \notin DOMAIN cache
        /\ \A i \in 1..Len(jobs) : jobs[i].reminder.patient_name # p

\* what the last dispatch read as the patient's preferences
DispatchPreferences == get_user_preferences(sent.patient)

Enabled(c) == DispatchPreferences[EnabledKey(c)] = TRUE

HasContact(c) == c = "push" \/ DispatchPreferences[ContactKey(c)] # ""

Attempted == {sent.attempted[i] : i \in 1..Len(sent.attempted)}

\* C9: after _send_medicine_reminder every enabled channel whose contact is
\* present has been attempted, whatever the channels before it did (a
\* delivery, a False result, an error inside the sender).
C9_ChannelsIndependent ==
    op.name = "_send_medicine_reminder" =>
        \A c \in ChannelSet : (Enabled(c) /\ HasContact(c)) => c \in Attempted

\* a channel failed, one by a False result or one by an error inside the
\* sender, and a channel after it was attempted and delivered
C9_Witness ==
    /\ op.name = "_send_medicine_reminder"
    /\ \E i, j, k \in 1..Len(sent.attempted) :
          /\ i < j /\ j < k
          /\ sent.results[i] = "error"
          /\ sent.results[j] = "off"
          /\ sent.results[k] = "ok"

\* C10: neither a scheduled reminder nor the test endpoint attempts email,
\* SMS or WhatsApp for a patient whose contact for that channel is empty or
\* missing, whether or not the channel is enabled.
C10_NoContactNoAttempt ==
    op.name \in {"_send_medicine_reminder", "test_notification"} =>
        \A c \in Attempted : HasContact(c)

\* a reminder was dispatched to a patient who enabled email and SMS without
\* giving an address or a number: push and WhatsApp alone were attempted
C10_Witness ==
    /\ op.name = "_send_medicine_reminder"
    /\ Enabled("email") /\ ~HasContact("email")
    /\ Enabled("sms") /\ ~HasContact("sms")
    /\ sent.attempted = <<"push", "whatsapp">>

\* C11: the dispatch of a fired reminder changes neither the registered jobs
\* nor the reminder cache nor its snapshot, whether a channel delivered or
\* none did: the reminder stays active and its job stays due at the trigger
\* time it was due at before.
C11_DispatchLeavesStore ==
    [][op'.name = "_send_medicine_reminder" =>
          /\ UNCHANGED <<jobs, cache, snapshot>>
          /\ \A e \in Entries : Entry(e).status = "active"
          /\ \A i \in 1..Len(jobs) : jobs'[i].next_run % Day = jobs'[i].at]_vars

\* push was attempted and failed, nothing was delivered, and the patient's
\* reminder is still cached and its job is due at the next daily trigger
C11_Witness ==
    /\ op.name = "_send_medicine_reminder"
    /\ sent.attempted = <<"push">>
    /\ sent.sent_via = <<>>
    /\ \E e \in Entries : Entry(e).patient_name = sent.patient
    /\ \E i \in 1..Len(jobs) :
          /\ jobs[i].reminder.patient_name = sent.patient
          /\ jobs[i].next_run = TodayAt(now, jobs[i].at) + Day

\* the history file of the patient of the last dispatch
HistoryOf(hist, patient_name) == MapGet(hist, HistoryFileOf[patient_name], <<>>)

\* C12: every dispatch of a fired reminder appends one record to the
\* patient's history; a dispatch in which no attempted channel delivered is
\* recorded as failed with no succeeded channel.
C12_EveryDispatchRecorded ==
    [][op'.name = "_send_medicine_reminder" =>
          LET before == HistoryOf(history, op'.who)
              after == HistoryOf(history', op'.who)
          IN  /\ Len(after) = Len(before) + 1
              /\ after[Len(after)].sent_via = sent'.sent_via
              /\ after[Len(after)].status
                     = IF sent'.sent_via = <<>> THEN "failed" ELSE "sent"]_vars

\* C13: a patient's history never holds more than 100 records, and a record
\* is stored at the end of it: a history below the cap keeps all it had, a
\* full history loses its oldest record and nothing else.
C13_HistoryKeepsLast100 ==
    [][\A p \in PatientNames :
          LET before == HistoryOf(history, p)
              after == HistoryOf(history', p)
              recorded == /\ op'.name = "_send_medicine_reminder"
                          /\ op'.who = p
                          /\ sent'.stored
          IN  /\ Len(after) <= HistoryCap
              /\ ~recorded => after = before
              /\ recorded =>
                    /\ after # <<>>
                    /\ after[Len(after)].timestamp = now
                    /\ after[Len(after)].sent_via = sent'.sent_via
                    /\ Len(before) < HistoryCap =>
                          SubSeq(after, 1, Len(after) - 1) = before
                    /\ Len(before) = HistoryCap =>
                          /\ Len(after) = HistoryCap
                          /\ SubSeq(after, 1, HistoryCap - 1)
                                 = SubSeq(before, 2, HistoryCap)]_vars

\* a record was stored in a history that held 100: it still holds 100, the
\* newest is the one just stored and the oldest is the one that was second
C13_Witness ==
    /\ op.name = "_send_medicine_reminder"
    /\ sent.sent_via = <<"push">>
    /\ Len(HistoryOf(history, "Al")) = HistoryCap
    /\ HistoryOf(history, "Al")[HistoryCap].timestamp = now
    /\ HistoryOf(history, "Al")[1] = PastRecords(HistoryCap)[2]

\* the hour of the 24-hour clock for hour h of the 12-hour clock
Hour24(h, suffix) ==
    IF suffix = "AM" THEN (IF h = 12 THEN 0 ELSE h) ELSE (IF h = 12 THEN 12 ELSE h + 12)

\* C14: for a 12-hour clock string with AM or PM, with or without a colon,
\* _parse_time returns the 24-hour "HH:MM": 12 AM is hour 00, 12 PM is hour
\* 12, h PM is h + 12, h AM is h, and the minute is the one written (00 when
\* none is).
C14_TwelveHourClock ==
    \A c \in Clock12 :
        (parsed.raw = c[1] /\ parsed.result # "") =>
            parsed.result = Fmt02d(Hour24(c[2], c[4])) \o ":" \o Fmt02d(c[3])

\* half past midnight was parsed
C14_Witness == parsed = [raw |-> "12:30AM", result |-> "00:30"]

\* C15: for a malformed timing string _parse_time returns "09:00".
C15_MalformedFallsBack ==
    (parsed.raw \in MalformedStrings /\ parsed.result # "") =>
        parsed.result = FallbackTime

\* the ranges of the prescriptions, each with the hour, minute and suffix
\* of its start
RangeStarts ==
    {<<"1:00AM-5:00PM", 1, 0, "AM">>, <<"1PM-5PM", 1, 0, "PM">>,
     <<"8:30AM-9:00AM", 8, 30, "AM">>}

\* C16: the job of a reminder whose timing is a range "A-B" is registered at
\* the time of day of its start A.
C16_RangeUsesStart ==
    \A i \in 1..Len(jobs) : \A r \in RangeStarts :
        jobs[i].reminder.timing = r[1] =>
            jobs[i].at = (Hour24(r[2], r[4]) * 60 + r[3]) * 60

\* the times of day at which the jobs of a timing are registered
TriggersOf(timing) ==
    {jobs[i].at : i \in {j \in 1..Len(jobs) : jobs[j].reminder.timing = timing}}

\* C17: a medicine whose timing is the frequency code "1-0-1" is scheduled
\* with two daily triggers, at 08:00 and at 20:00.
C17_FrequencyCode ==
    TriggersOf("1-0-1") # {} => TriggersOf("1-0-1") = {8 * 60 * 60, 20 * 60 * 60}

\* C18: a reminder with trigger 08:00 registered at 08:05 is due at the poll
\* made at 08:05, before anything was dispatched, and after that poll its
\* job is due on the following day at 08:00.
C18_LateStartFiresSameDay ==
    [][(/\ op'.name = "run_pending"
        /\ now % Day = LateStart
        /\ pending = <<>>
        /\ sent = NoDispatch) =>
          \A i \in 1..Len(jobs) :
              (/\ jobs[i].at = TimeOfDayOf["08:00"]
               /\ \E e \in Entries : /\ SameReminder(Entry(e), jobs[i].reminder)
                                     /\ Entry(e).created_at = now) =>
                  /\ Due(jobs[i], now)
                  /\ op'.fired >= 1
                  /\ jobs'[i].next_run = TodayAt(now, jobs[i].at) + Day]_vars

DueJobs == {i \in 1..Len(jobs) : Due(jobs[i], now)}

\* C19: a poll runs every due job once, however long ago it became due: one
\* coroutine is submitted for each due job, the job is then due at a time
\* after the poll, and the jobs that were not due are left alone.
C19_NoCatchUp ==
    [][op'.name = "run_pending" =>
          /\ op'.fired = Cardinality(DueJobs)
          /\ Len(pending') = Len(pending) + op'.fired - op'.dropped
          /\ Len(jobs') = Len(jobs)
          /\ \A i \in 1..Len(jobs) :
                IF i \in DueJobs
                THEN /\ jobs'[i].next_run > now
                     /\ jobs'[i].next_run <= now + Day
                     /\ jobs'[i].next_run % Day = jobs[i].at
                ELSE jobs'[i] = jobs[i]]_vars

\* the first poll after three days without one: the one job, due since day
\* 0, ran once and is due again within a day, and nothing had run before
C19_Witness ==
    /\ op.name = "run_pending"
    /\ op.fired = 1
    /\ Len(pending) = 1
    /\ sent = NoDispatch
    /\ now >= DaysAsleep * Day
    /\ Len(jobs) = 1
    /\ jobs[1].next_run > now
    /\ \E e \in Entries : /\ SameReminder(Entry(e), jobs[1].reminder)
                          /\ Entry(e).next_reminder < Day

\* C20: after every operation that adds reminders to the cache or removes a
\* patient's reminders, active_reminders.json exists and holds the cache as
\* it is now: the same patients, each with the same reminders in the same
\* order.
C20_WriteThrough ==
    [][(cache' # cache \/ op'.name = "remove_patient_reminders") =>
          snapshot' = [exists |-> TRUE, data |-> cache']]_vars

\* a patient's reminders were removed while another patient has some: the
\* file holds the other patient's reminders and nothing of the removed one
C20_Witness ==
    /\ op.name = "remove_patient_reminders"
    /\ op.who \notin DOMAIN cache
    /\ \E k \in DOMAIN disk : disk[k].Patient = op.who
    /\ DOMAIN cache # {}
    /\ snapshot = [exists |-> TRUE, data |-> cache]

\* "HH:MM" with HH in 00..23 and MM in 00..59
ValidTime24(hhmm) ==
    /\ Len(hhmm) = 5
    /\ CharAt(hhmm, 3) = ":"
    /\ AllDigits(SubSeq(hhmm, 1, 2))
    /\ AllDigits(SubSeq(hhmm, 4, 5))
    /\ DigitsVal(SubSeq(hhmm, 1, 2)) <= MaxHour
    /\ DigitsVal(SubSeq(hhmm, 4, 5)) <= MaxMinute

\* C21: every registered job was registered under a valid 24-hour time
\* "HH:MM", the one _parse_time returned for the reminder's timing text, and
\* runs at that time of day.
C21_TriggerIsValidTime ==
    \A i \in 1..Len(jobs) :
        LET reminder_time == ParsedTime[jobs[i].reminder.timing]
        IN  /\ ValidTime24(reminder_time)
            /\ jobs[i].at = TimeOfDayOf[reminder_time]
            /\ jobs[i].at \in 0..(Day - 1)
            /\ jobs[i].next_run % Day = jobs[i].at

\* jobs are registered for a timing with an hour past 23, for one with a
\* minute past 59, for free text and for a time late in the evening
C21_Witness ==
    /\ \E i \in 1..Len(jobs) : jobs[i].reminder.timing = "25:30"
    /\ \E i \in 1..Len(jobs) : jobs[i].reminder.timing = "after lunch"
    /\ \E i \in 1..Len(jobs) :
          /\ jobs[i].reminder.timing = "11:45PM"
          /\ jobs[i].at = (23 * 60 + 45) * 60

\* the patient of the last dispatch has email enabled, push, SMS and WhatsApp
\* not enabled, and neither a phone number nor a WhatsApp number
OnlyEmailEnabled ==
    /\ Enabled("email")
    /\ ~Enabled("push") /\ ~Enabled("sms") /\ ~Enabled("whatsapp")
    /\ ~HasContact("sms") /\ ~HasContact("whatsapp")

\* C22 as stated: one dispatch to a patient with only email enabled calls the
\* email sender and no other, and reports email as succeeded only if the
\* delivery returned success.
C22_OnlyEmailCallsEmail ==
    (op.name = "_send_medicine_reminder" /\ OnlyEmailEnabled) =>
        /\ sent.attempted = <<"email">>
        /\ sent.sent_via = IF sent.results = <<"ok">> THEN <<"email">> ELSE <<>>

\* C22, amended: the same for a patient who also has an email address on
\* file; without an address no sender is called and nothing is reported as
\* succeeded.
C22_OnlyEmailWithAddress ==
    (op.name = "_send_medicine_reminder" /\ OnlyEmailEnabled) =>
        IF HasContact("email")
        THEN /\ sent.attempted = <<"email">>
             /\ sent.sent_via = IF sent.results = <<"ok">> THEN <<"email">> ELSE <<>>
        ELSE sent.attempted = <<>> /\ sent.sent_via = <<>>

\* the email sender was called for such a patient and returned False: email
\* alone was attempted and nothing is reported as succeeded
C22_Witness ==
    /\ op.name = "_send_medicine_reminder"
    /\ OnlyEmailEnabled
    /\ HasContact("email")
    /\ sent.attempted = <<"email">>
    /\ sent.results = <<"off">>
    /\ sent.sent_via = <<>>

\* the records stored for a patient, oldest first
StoredFor(patient_name) ==
    LET Own(record) == record.patient_name = patient_name
    IN  SelectSeq(MapGet(history, HistoryFile(patient_name), <<>>), Own)

\* C23: get_reminder_history(patient, days) returns the records stored for
\* the patient whose timestamp is later than now minus the days, in stored
\* order, and the empty list for a patient for whom none was stored.
C23_HistoryQuery ==
    op.name = "get_reminder_history" =>
        LET Recent(record) == record.timestamp > now - returned.arg * Day
        IN  returned.value = SelectSeq(StoredFor(returned.who), Recent)

\* the preferences a patient is expected to have: the last value written
\* for each key, the default for a key never written
Upserted(patient_name) == Overlay(DEFAULT_PREFERENCES, written[patient_name])

StoppedAwake(i) ==
    /\ i \in 1..Len(sthreads)
    /\ sthreads[i].alive
    /\ ~is_running
    /\ sthreads[i].wake <= LastInstant

Exited(i) == i \in 1..Len(sthreads) /\ ~sthreads[i].alive

\* C25: while the scheduler is stopped no poll is made, so no job runs and
\* nothing is submitted; the step a polling thread takes then is its exit;
\* and every polling thread alive while the scheduler is stopped exits,
\* unless the scheduler is started again first.
C25_StopTerminatesPolling ==
    /\ [][~is_running =>
             /\ op'.name # "run_pending"
             /\ pending' = pending
             /\ \A i \in 1..Len(sthreads) :
                   sthreads'[i] # sthreads[i] => ~sthreads'[i].alive]_vars
    /\ \A i \in 1..MaxCalls : StoppedAwake(i) ~> (is_running \/ Exited(i))

\* the scheduler was stopped, a reminder was registered afterwards and has
\* become due, and the polling thread has exited without running it
C25_Witness ==
    /\ op.name = "_run_scheduler exit"
    /\ ~is_running
    /\ sthreads # <<>>
    /\ \A i \in 1..Len(sthreads) : ~sthreads[i].alive
    /\ \E i \in 1..Len(jobs) : Due(jobs[i], now)
    /\ pending = <<>>

\* C26: every reminder the cache lists as active has a registered job for
\* its patient, medicine and timing, and every registered job has such a
\* cache entry.
C26_CacheAgreesWithJobs ==
    /\ \A e \in Entries :
          Entry(e).status = "active" =>
              \E i \in 1..Len(jobs) : SameReminder(Entry(e), jobs[i].reminder)
    /\ \A i \in 1..Len(jobs) :
          \E e \in Entries : SameReminder(Entry(e), jobs[i].reminder)

\* the jobs of the registry that carry a reminder of the patient, in order
JobsOf(registry, patient_name) ==
    LET Own(job) == job.reminder.patient_name = patient_name
    IN  SelectSeq(registry, Own)

\* C27: remove_patient_reminders(p) leaves p without a job and leaves every
\* other patient's jobs and cached reminders as they were.
C27_RemoveOnlyOwnJobs ==
    [][op'.name = "remove_patient_reminders" =>
          /\ JobsOf(jobs', op'.who) = <<>>
          /\ \A q \in PatientNames \ {op'.who} :
                /\ JobsOf(jobs', q) = JobsOf(jobs, q)
                /\ MapGet(cache', q, <<>>) = MapGet(cache, q, <<>>)]_vars

\* C28: when start_scheduler returns after starting the scheduler, async_loop
\* names an event loop that is running, and no poll drops a job because the
\* loop is not available.
C28_StartLeavesLoopRunning ==
    [][/\ (op'.name = "start_scheduler"
           /\ op'.log = "Medication scheduler started successfully") =>
              (async_loop' # 0 /\ loops'[async_loop'] = "running")
       /\ op'.name = "run_pending" => op'.dropped = 0]_vars

\* C29: a prescription saved by analyze_prescription becomes one more file
\* of data/prescriptions, every file saved before is still there with the
\* content it had, and get_all_prescriptions returns one record for each.
C29_SaveNeverOverwrites ==
    [][op'.name = "analyze_prescription" =>
          /\ \A k \in DOMAIN disk : k \in DOMAIN disk' /\ disk'[k] = disk[k]
          /\ Cardinality(DOMAIN disk') = Cardinality(DOMAIN disk) + 1
          /\ Len(NewestFirst(disk')) = Len(NewestFirst(disk)) + 1]_vars

\* the jobs registered for a timing string
LegacyJobs(timing_str) == {i \in 1..Len(jobs) : jobs[i].reminder.timing = timing_str}

\* C30: parse_timing returns for every timing string, with an empty list
\* and an error log for one it cannot parse; schedule_reminders returns too
\* and no job is registered for a timing that parse_timing cannot parse.
C30_LegacyParserNeverRaises ==
    /\ op.name = "parse_timing" =>
          /\ ~returned.value.raised
          /\ returned.value.times = <<>> => returned.value.logged
    /\ op.name = "schedule_reminders" => ~returned.value
    /\ \A t \in LegacyTimings : ParsedTiming[t].times = <<>> => LegacyJobs(t) = {}

====
